---- MODULE Spec2Model ----
(***************************************************************************)
(* Model of the Project-Green frontend: the two localStorage strings, the  *)
(* router of App.jsx with its RoleProtectedRoute guard, the Login,         *)
(* Register and SelectRole pages with their requests in flight, and the    *)
(* PropertyManagerDashboard add-property form.                             *)
(* Strings that the code inspects (trim, length, regular expressions) are  *)
(* sequences of one-character strings.                                     *)
(***************************************************************************)
EXTENDS Integers, Sequences, FiniteSets, Bags, TLC

\* ------------------------------------------------------------------ bounds
MaxPending == 2     \* requests of the auth pages in flight at once
MaxProps == 2       \* properties shown by PropertyManagerDashboard

\* ------------------------------------------------------------- primitives
Null == "null"          \* localStorage.getItem of an absent key, JSON null
Children == "children"  \* RoleProtectedRoute returned its children
Token == "jwt"          \* data.access_token, an opaque string

\* String.prototype.trim on a sequence of characters
RECURSIVE TrimLeft(_)
TrimLeft(s) == IF s # <<>> /\ Head(s) = " " THEN TrimLeft(Tail(s)) ELSE s

RECURSIVE TrimRight(_)
TrimRight(s) ==
  IF s # <<>> /\ s[Len(s)] = " " THEN TrimRight(SubSeq(s, 1, Len(s) - 1)) ELSE s

Trim(s) == TrimRight(TrimLeft(s))

\* the email test without the "." part of the pattern: /^\S+@\S+$/
TestEmail_noDot(s) ==
  /\ \A i \in 1..Len(s) : s[i] # " "
  /\ \E i \in 2..(Len(s) - 1) : s[i] = "@"

\* /^\S+@\S+\.\S+$/.test(email): no white space, an "@" after at least one
\* character, a "." at least one character later, and a character after it
TestEmail(s) ==
  /\ \A i \in 1..Len(s) : s[i] # " "
  /\ \E i \in 2..Len(s) : \E j \in (i + 2)..(Len(s) - 1) :
        s[i] = "@" /\ s[j] = "."

\* /^[A-Za-z0-9]+$/.test(providerCode)
AlnumChars == {"a", "b", "A", "B", "1", "2", "9"}
TestAlnum(s) == s # <<>> /\ \A i \in 1..Len(s) : s[i] \in AlnumChars

\* ----------------------------------------------------------- localStorage
\* isAuthenticated(): !!getToken()
isAuthenticated(token) == token # Null

\* ----------------------------------------------------------------- router
\* the routes of App.jsx wrapped in RoleProtectedRoute, with allowedRole
AllowedRole ==
  [p \in {"/homeowner-setup", "/homeowner-dashboard",
          "/manager-setup", "/manager-dashboard"} |->
     IF p \in {"/homeowner-setup", "/homeowner-dashboard"}
     THEN "Homeowner" ELSE "PropertyManager"]

Routes == {"/", "/login", "/register", "/role"} \cup DOMAIN AllowedRole

\* RoleProtectedRoute without the comparison of the role with allowedRole
RoleProtectedRoute_anyRole(allowedRole, token, role) ==
  IF ~isAuthenticated(token) THEN "/login"
  ELSE IF role = Null THEN "/role"
  ELSE Children

\* RoleProtectedRoute looking at the role before the token
RoleProtectedRoute_roleFirst(allowedRole, token, role) ==
  IF role = Null THEN "/role"
  ELSE IF ~isAuthenticated(token) THEN "/login"
  ELSE IF role # allowedRole
       THEN IF role = "Homeowner" THEN "/homeowner-dashboard"
            ELSE IF role = "PropertyManager" THEN "/manager-dashboard"
            ELSE "/login"
  ELSE Children

\* RoleProtectedRoute sending every wrong role to /login
RoleProtectedRoute_loginOnMismatch(allowedRole, token, role) ==
  IF ~isAuthenticated(token) THEN "/login"
  ELSE IF role = Null THEN "/role"
  ELSE IF role # allowedRole THEN "/login"
  ELSE Children

\* RoleProtectedRoute({allowedRole, children}) reading the two storage keys:
\* the path it redirects to, or Children
RoleProtectedRoute(allowedRole, token, role) ==
  IF ~isAuthenticated(token) THEN "/login"
  ELSE IF role = Null THEN "/role"
  ELSE IF role # allowedRole
       THEN IF role = "Homeowner" THEN "/homeowner-dashboard"
            ELSE IF role = "PropertyManager" THEN "/manager-dashboard"
            ELSE "/login"
  ELSE Children

\* The router rendering `path`: a protected route runs the guard, and a
\* <Navigate replace> it returns is followed.  The result is the route that
\* ends up displayed and the guard evaluations made on the way.
RECURSIVE Render(_, _, _)
Render(path, token, role) ==
  IF path \in DOMAIN AllowedRole
  THEN LET res == RoleProtectedRoute(AllowedRole[path], token, role)
           ev  == [route |-> path, allowedRole |-> AllowedRole[path],
                   token |-> token, userRole |-> role, result |-> res]
       IN IF res = Children
          THEN [loc |-> path, log |-> <<ev>>]
          ELSE LET nxt == Render(res, token, role)
               IN [loc |-> nxt.loc, log |-> <<ev>> \o nxt.log]
  ELSE [loc |-> path, log |-> <<>>]

\* ------------------------------------------------------------------ state
VARIABLES
  root,              \* the component rendered at the root: App, or a page
                     \* rendered on its own as its tests render it
  selectRoleVersion, \* which of the two SelectRole.jsx versions is built
  access_token,      \* localStorage "access_token", Null when absent
  userRole,          \* localStorage "userRole", Null when absent
  loc,               \* the route whose element is displayed
  guardLog,          \* guard evaluations made by the last navigation
  login,             \* state of the mounted Login component
  register,          \* state of the mounted Register component
  pending,           \* requests of Login, Register, SelectRole in flight
  awaitingRole,      \* a registration succeeded, no role selection since
  ev,                \* what the last step did, when it settled a request
  pm,                \* state of PropertyManagerDashboard
  pmPending,         \* fetchUserContext / addProperty calls in flight
  tariff,            \* state of TariffOption and of its GET /api/tariffs
  portfolio,         \* state of PortfolioList
  usageLogs,         \* state of UsageLogsViewer
  propertyAnalytics, \* state of PropertyAnalytics
  deviceAnalytics,   \* state of DeviceAnalytics
  dailyEnergy,       \* state of DailyEnergy
  updateProperty,    \* state of UpdateProperty, the version that PATCHes
  updatePut,         \* state of UpdateProperty, the version that PUTs
  addProperty        \* state of AddProperty and its POSTs in flight

authVars == <<root, selectRoleVersion, access_token, userRole, loc, guardLog,
              login, register, pending, awaitingRole>>
pmVars == <<pm, pmPending>>
pageVars == <<tariff, portfolio, usageLogs, propertyAnalytics,
              deviceAnalytics, dailyEnergy, updateProperty, updatePut,
              addProperty>>
vars == <<authVars, ev, pmVars, pageVars>>

\* input values typed into the forms
EmailInputs == {<<>>, <<"a", "@", "b">>, <<"a", "@", "b", ".", "c">>}
PasswordInputs == {<<>>, <<"p", "w">>}
NameInputs == {<<>>, <<"A", "b">>}

\* role values GET /auth/me can report: none, the two the routes know,
\* and one that stands for any other string
MeRoles == {Null, "Homeowner", "PropertyManager", "Admin"}

\* useState initial values of Login and Register
LoginInit ==
  [email |-> <<>>, password |-> <<>>, error |-> "", loading |-> FALSE]
RegisterInit ==
  [fullName |-> <<>>, email |-> <<>>, password |-> <<>>,
   error |-> "", loading |-> FALSE]

\* what a submit, a role selection or the continuation of a settled request
\* did: the outcome (for a continuation the response it got), the
\* navigate() target, the value written to userRole, whether the request
\* failed and the message it raised
Ev(op, arg, nav, stored, failed, error) ==
  [op |-> op, arg |-> arg, nav |-> nav, stored |-> stored,
   failed |-> failed, error |-> error, alert |-> FALSE]

\* the last step was neither a submit, a role selection nor the
\* continuation of a request
NoEv == Ev("none", Null, Null, Null, FALSE, "")

\* An invocation of an async handler that is awaiting: the handler, the
\* requests it has in flight, the role it was called with, and whether the
\* component that runs it is still mounted.  `pending` is the bag of them.
Call(handler, requests, role) ==
  [handler |-> handler, requests |-> requests, role |-> role, live |-> TRUE]

\* the component was unmounted: the continuation still runs when the
\* request settles, its setState calls have no effect
Dead(r) == [r EXCEPT !.live = FALSE]
Unmounted(P) == BagOfAll(Dead, P)

\* the invocations of one handler awaiting request `req`
Awaiting(handler, req) ==
  {r \in BagToSet(pending) : r.handler = handler /\ req \in r.requests}

\* navigate(path) with the storage (token, role), from a handler that
\* leaves the page states lg, rg and the requests pd: the route displayed
\* changes, and a component that is no longer displayed is unmounted (also
\* when the guard of `path` redirects back to the route left)
Navigate(path, token, role, lg, rg, pd) ==
  LET r == Render(path, token, role)
      stays == path = loc /\ r.loc = loc
  IN /\ loc' = r.loc
     /\ guardLog' = r.log
     /\ login' = IF stays THEN lg ELSE LoginInit
     /\ register' = IF stays THEN rg ELSE RegisterInit
     /\ pending' = IF stays THEN pd ELSE Unmounted(pd)

\* ------------------------------------------------------------ TariffOption
\* response.data of GET /api/tariffs, the tariffs named by their id; Null
\* when the request was rejected
TariffResponses == {Null, <<>>, <<1, 2>>}

\* useState initial values; the mount effect has called fetchTariffs().
\* `request` is the GET of the mount effect: pending, or how it settled
TariffInit ==
  [tariffs |-> <<>>, loading |-> TRUE, error |-> "", selectedTariff |-> Null,
   request |-> "pending"]

\* What TariffOption returns: the view, the tariffs shown as cards that
\* select on click, and whether Confirm Selection is part of it.  The list
\* is built by `tarrofs.map(...)`; no `tarrofs` is declared, so evaluating
\* the return statement throws a ReferenceError and nothing is rendered.
TariffOption_render(t) ==
  IF t.loading
  THEN [view |-> "loading", cards |-> <<>>, confirm |-> FALSE]
  ELSE IF t.error # ""
  THEN [view |-> "error", cards |-> <<>>, confirm |-> FALSE]
  ELSE [view |-> "ReferenceError", cards |-> <<>>, confirm |-> FALSE]

\* ----------------------------------------------------------- PortfolioList
\* useState initial values after the first render, the effect of
\* [page, sortBy, search] not yet run.  `request` is the GET /api/properties
\* of the displayed page: none sent, pending, or how it settled
PortfolioInit ==
  [properties |-> <<>>, page |-> 1, totalPages |-> 1, loading |-> FALSE,
   effect |-> "scheduled", request |-> "none", mounted |-> TRUE]

\* what PortfolioList shows; nothing once React has unmounted it
PortfolioList_render(p) ==
  IF ~p.mounted THEN "unmounted"
  ELSE IF p.loading THEN "Loading properties..."
  ELSE IF p.properties = <<>> THEN "No properties found"
  ELSE "table"

\* ------------------------------------------------------ the loading pages
\* the outcomes of a load request: an ok response, a non-ok response with a
\* JSON body, a rejected fetch
LoadResponses == {"ok", "nonOk", "reject"}

\* useState initial values of UsageLogsViewer; the mount effect has called
\* fetchLogs().  `request` is the load request: pending, or how it settled
UsageLogsInit ==
  [logs |-> <<>>, loading |-> TRUE, error |-> "", request |-> "pending"]

\* useState initial values of PropertyAnalytics and of DeviceAnalytics; the
\* mount effect has called fetchAnalytics() / fetchDeviceUsage()
PropertyAnalyticsInit ==
  [analytics |-> Null, loading |-> TRUE, request |-> "pending"]
DeviceAnalyticsInit ==
  [usage |-> Null, loading |-> TRUE, request |-> "pending"]

\* useState initial values of DailyEnergy after the first render, the
\* mount effect not yet run; `navigated` is the target of navigate()
DailyEnergyInit ==
  [loading |-> TRUE, error |-> "", tip |-> "", effect |-> "scheduled",
   request |-> "none", navigated |-> Null]

\* the outcomes of POST /scenario/run: those of a load request, and a 401
\* or 403 response
ScenarioResponses == LoadResponses \cup {"401"}

\* --------------------------------------------------------- UpdateProperty
\* the inputs of the form; all but mpan_id carry `required`
UpdateFields ==
  {"address", "location", "sq_footage", "tariff_id", "portfolio_id", "mpan_id"}
UpdateRequired == UpdateFields \ {"mpan_id"}

\* the property objects GET /properties/:id answers with: every field set,
\* and one without address and mpan_id
PropertyData ==
  {[f \in UpdateFields |-> "v"],
   [f \in UpdateFields |-> IF f \in {"address", "mpan_id"} THEN Null ELSE "v"]}

\* data.field || ""
OrEmpty(v) == IF v = Null THEN "" ELSE v

\* useState initial values; the mount effect has called fetchProperty().
\* `request` is the load request, `patches` the PATCH requests in flight,
\* `timers` the setTimeout(() => navigate("/manager-dashboard")) pending
UpdateInit ==
  [loading |-> TRUE, saving |-> FALSE, error |-> "", success |-> "",
   formData |-> [f \in UpdateFields |-> ""], request |-> "pending",
   patches |-> 0, timers |-> 0, mounted |-> TRUE]

\* the form submits when the browser finds every required input filled in
UpdateSubmittable(formData, required) == \A f \in required : formData[f] # ""

\* the inputs of the version that PUTs, all `required`
UpdatePutFields == {"name", "address", "type", "rooms", "tariff"}

\* useState initial values of the version that PUTs; `puts` are the PUT
\* requests in flight
UpdatePutInit ==
  [formData |-> [f \in UpdatePutFields |-> ""], message |-> "", puts |-> 0]

\* ------------------------------------------------------------ AddProperty
\* the text and number inputs of the form (AddProperty.jsx)
AddTextFields == {"property_type", "location"}
AddNumberFields ==
  {"average_monthly_kwh", "occupancy", "maintenance_cost", "budget"}
AddFields == AddTextFields \cup AddNumberFields

\* value < 0 for the value of a number input: a minus sign followed by
\* digits that are not all zero
Negative(s) ==
  /\ Len(s) >= 2 /\ s[1] = "-"
  /\ \E i \in 2..Len(s) : s[i] # "0"

\* useState initial values: an empty form, errors = {} ("" stands for an
\* absent key), and no POST /properties/add in flight
AddInit ==
  [form |-> [f \in AddFields |-> <<>>], errors |-> [f \in AddFields |-> ""],
   success |-> "", posts |-> {}]

\* validateField(name, value)
validateField(name, value) ==
  IF name = "property_type" /\ Len(Trim(value)) < 2
  THEN "Property type is required."
  ELSE IF name = "location" /\ Len(Trim(value)) < 2
  THEN "Location is required."
  ELSE IF name \in AddNumberFields /\ value # <<>> /\ Negative(value)
  THEN "Value must be positive."
  ELSE ""

\* ------------------------------------------------ PropertyManagerDashboard
\* values typed into Property ID and Provider Code
PropertyIdInputs ==
  {<<>>, <<" ", " ", " ", " ">>, <<"1", "2">>, <<"9", "9", "9", "9">>,
   <<" ", "a", "b", " ">>}
ProviderCodeInputs ==
  {<<>>, <<" ">>, <<"!", "!", "?", "?">>, <<"A", "B", "1", "2">>,
   <<"A", " ", "1">>}

\* the property objects the backend returns, named by property_id
Properties == {"1234", "9999"}

\* the errors object; "" stands for an absent key
NoErrors == [propertyId |-> "", providerCode |-> "", submit |-> ""]

\* useState initial values; the mount effect has called load()
PMInit ==
  [properties |-> <<>>, loading |-> TRUE, propertyId |-> <<>>,
   providerCode |-> <<>>, errors |-> NoErrors, submitting |-> FALSE]

\* a call of propertyService in flight, with its arguments
PMCall(fn, propertyId, providerCode) ==
  [fn |-> fn, propertyId |-> propertyId, providerCode |-> providerCode]

\* validate() without the length check of Property ID
validate_noLength(propertyId, providerCode) ==
  [propertyId |->
     IF Trim(propertyId) = <<>> THEN "Property ID is required" ELSE "",
   providerCode |->
     IF Trim(providerCode) = <<>> THEN "Provider code is required"
     ELSE IF ~TestAlnum(providerCode)
          THEN "Provider code must be alphanumeric"
          ELSE "",
   submit |-> ""]

\* newErrors of validate(); the dash of "Too short" is written as "-"
validate(propertyId, providerCode) ==
  [propertyId |->
     IF Trim(propertyId) = <<>> THEN "Property ID is required"
     ELSE IF Len(propertyId) < 4
          THEN "Too short - must be at least 4 characters"
          ELSE "",
   providerCode |->
     IF Trim(providerCode) = <<>> THEN "Provider code is required"
     ELSE IF ~TestAlnum(providerCode)
          THEN "Provider code must be alphanumeric"
          ELSE "",
   submit |-> ""]

\* The state after the first render of `root`; localStorage holds what an
\* earlier visit left: nothing, or one of `tokens`
InitWith(roots, tokens) ==
  /\ root \in roots
  /\ selectRoleVersion \in {1, 2}
  /\ access_token \in tokens
  /\ userRole = Null
  /\ loc = "/"
  /\ guardLog = <<>>
  /\ login = LoginInit
  /\ register = RegisterInit
  /\ pending = EmptyBag
  /\ awaitingRole = FALSE
  /\ ev = NoEv
  /\ pm = PMInit
  /\ pmPending = {PMCall("fetchUserContext", <<>>, <<>>)}
  /\ tariff = TariffInit
  /\ portfolio = PortfolioInit
  /\ usageLogs = UsageLogsInit
  /\ propertyAnalytics = PropertyAnalyticsInit
  /\ deviceAnalytics = DeviceAnalyticsInit
  /\ dailyEnergy = DailyEnergyInit
  /\ updateProperty = UpdateInit
  /\ updatePut = UpdatePutInit
  /\ addProperty = AddInit

\* App opened by a new visitor
Init == InitWith({"App"}, {Null})

\* ----------------------------------------------------------- the browser
\* The user opens a URL of the application: the page is loaded anew, the
\* requests of the previous document are gone, localStorage persists.
Goto(path) ==
  /\ LET r == Render(path, access_token, userRole)
     IN loc' = r.loc /\ guardLog' = r.log
  /\ login' = LoginInit
  /\ register' = RegisterInit
  /\ pending' = EmptyBag
  /\ ev' = NoEv
  /\ UNCHANGED <<root, selectRoleVersion, access_token, userRole, awaitingRole, pmVars, pageVars>>

\* Welcome: the Login and Sign Up buttons; Login and Register: the footer
\* links; SelectRole: the Login link
Link(from, to) ==
  /\ loc = from
  /\ Navigate(to, access_token, userRole, login, register, pending)
  /\ ev' = NoEv
  /\ UNCHANGED <<root, selectRoleVersion, access_token, userRole, awaitingRole, pmVars, pageVars>>

Links == {<<"/", "/login">>, <<"/", "/register">>, <<"/login", "/register">>,
          <<"/register", "/login">>, <<"/role", "/login">>}

\* ------------------------------------------------------------------ Login
Login_setEmail(v) ==
  /\ loc = "/login"
  /\ login' = [login EXCEPT !.email = v]
  /\ ev' = NoEv
  /\ UNCHANGED <<root, selectRoleVersion, access_token, userRole, loc, guardLog,
                 register, pending, awaitingRole, pmVars, pageVars>>

Login_setPassword(v) ==
  /\ loc = "/login"
  /\ login' = [login EXCEPT !.password = v]
  /\ ev' = NoEv
  /\ UNCHANGED <<root, selectRoleVersion, access_token, userRole, loc, guardLog,
                 register, pending, awaitingRole, pmVars, pageVars>>

\* handleSubmit calling checkUserRole() without awaiting loginUser first
Login_handleSubmit_noAwait ==
  /\ loc = "/login"
  /\ ~login.loading
  /\ IF login.email = <<>> \/ login.password = <<>>
     THEN /\ login' = [login EXCEPT !.error = "Email and password are required."]
          /\ pending' = pending
          /\ ev' = Ev("Login.handleSubmit", "rejected", Null, Null, FALSE,
                      "Email and password are required.")
     ELSE IF ~TestEmail(login.email)
     THEN /\ login' = [login EXCEPT !.error = "Enter a valid email."]
          /\ pending' = pending
          /\ ev' = Ev("Login.handleSubmit", "rejected", Null, Null, FALSE,
                      "Enter a valid email.")
     ELSE /\ BagCardinality(pending) < MaxPending
          /\ login' = [login EXCEPT !.error = "", !.loading = TRUE]
          /\ pending' = pending (+) SetToBag({Call("Login.handleSubmit",
                            {"POST /auth/login", "GET /auth/me"}, Null)})
          /\ ev' = Ev("Login.handleSubmit", "sent", Null, Null, FALSE, "")
  /\ UNCHANGED <<root, selectRoleVersion, access_token, userRole, loc, guardLog,
                 register, awaitingRole, pmVars, pageVars>>

\* handleSubmit up to its first await; the submit button is disabled while
\* loading
Login_handleSubmit ==
  /\ loc = "/login"
  /\ ~login.loading
  /\ IF login.email = <<>> \/ login.password = <<>>
     THEN /\ login' = [login EXCEPT !.error = "Email and password are required."]
          /\ pending' = pending
          /\ ev' = Ev("Login.handleSubmit", "rejected", Null, Null, FALSE,
                      "Email and password are required.")
     ELSE IF ~TestEmail(login.email)
     THEN /\ login' = [login EXCEPT !.error = "Enter a valid email."]
          /\ pending' = pending
          /\ ev' = Ev("Login.handleSubmit", "rejected", Null, Null, FALSE,
                      "Enter a valid email.")
     ELSE /\ BagCardinality(pending) < MaxPending
          /\ login' = [login EXCEPT !.error = "", !.loading = TRUE]
          /\ pending' = pending (+) SetToBag({Call("Login.handleSubmit", {"POST /auth/login"}, Null)})
          /\ ev' = Ev("Login.handleSubmit", "sent", Null, Null, FALSE, "")
  /\ UNCHANGED <<root, selectRoleVersion, access_token, userRole, loc, guardLog,
                 register, awaitingRole, pmVars, pageVars>>

\* the messages loginUser throws: a non-ok response without detail, and a
\* rejected fetch
LoginErrors == {"Login failed", "Failed to fetch"}

\* handleSubmit from `await loginUser` to `await checkUserRole()`, which
\* runs up to its fetch of /auth/me; or to the end when loginUser threw
Login_loginUser(r, ok, msg) ==
  /\ r \in Awaiting("Login.handleSubmit", "POST /auth/login")
  /\ IF ok
     THEN /\ access_token' = Token
          /\ login' = IF r.live
                      THEN [login EXCEPT !.email = <<>>, !.password = <<>>,
                                         !.error = ""]
                      ELSE login
          /\ pending' = (pending (-) SetToBag({r}))
                         (+) SetToBag({[r EXCEPT !.requests = {"GET /auth/me"}]})
          /\ ev' = Ev("Login.loginUser", "ok", Null, Null, FALSE, "")
     ELSE /\ access_token' = access_token
          /\ login' = IF r.live
                      THEN [login EXCEPT !.error = msg, !.loading = FALSE]
                      ELSE login
          /\ pending' = pending (-) SetToBag({r})
          /\ ev' = Ev("Login.loginUser", "failed", Null, Null, TRUE, msg)
  /\ UNCHANGED <<root, selectRoleVersion, userRole, loc, guardLog, register,
                 awaitingRole, pmVars, pageVars>>

\* the outcomes of GET /auth/me: an ok response reporting a role, a non-ok
\* response, a rejected fetch
MeResponses == MeRoles \cup {"nonOk", "reject"}

\* what checkUserRole does with a response: the value it stores under
\* userRole and the path it navigates to (Null: none)
checkUserRole(resp) ==
  IF resp = "nonOk" THEN [stored |-> Null, nav |-> Null]
  ELSE IF resp = "reject" THEN [stored |-> Null, nav |-> "/role"]
  ELSE IF resp = Null THEN [stored |-> Null, nav |-> "/role"]
  ELSE [stored |-> resp,
        nav |-> IF resp = "Homeowner" THEN "/homeowner-dashboard"
                ELSE IF resp = "PropertyManager" THEN "/manager-dashboard"
                ELSE Null]

\* checkUserRole from its fetch on, then the finally block of handleSubmit
Login_checkUserRole(r, resp) ==
  /\ r \in Awaiting("Login.handleSubmit", "GET /auth/me")
  /\ LET c  == checkUserRole(resp)
         ur == IF c.stored # Null THEN c.stored ELSE userRole
         lg == IF r.live THEN [login EXCEPT !.loading = FALSE] ELSE login
     IN /\ userRole' = ur
        /\ IF c.nav # Null
           THEN Navigate(c.nav, access_token, ur, lg, register, pending (-) SetToBag({r}))
           ELSE /\ login' = lg
                /\ pending' = pending (-) SetToBag({r})
                /\ UNCHANGED <<loc, guardLog, register>>
        /\ ev' = Ev("Login.checkUserRole", resp, c.nav, c.stored,
                    resp \in {"nonOk", "reject"}, "")
  /\ UNCHANGED <<root, selectRoleVersion, access_token, awaitingRole, pmVars, pageVars>>

\* --------------------------------------------------------------- Register
Register_setFullName(v) ==
  /\ loc = "/register"
  /\ register' = [register EXCEPT !.fullName = v]
  /\ ev' = NoEv
  /\ UNCHANGED <<root, selectRoleVersion, access_token, userRole, loc, guardLog,
                 login, pending, awaitingRole, pmVars, pageVars>>

Register_setEmail(v) ==
  /\ loc = "/register"
  /\ register' = [register EXCEPT !.email = v]
  /\ ev' = NoEv
  /\ UNCHANGED <<root, selectRoleVersion, access_token, userRole, loc, guardLog,
                 login, pending, awaitingRole, pmVars, pageVars>>

Register_setPassword(v) ==
  /\ loc = "/register"
  /\ register' = [register EXCEPT !.password = v]
  /\ ev' = NoEv
  /\ UNCHANGED <<root, selectRoleVersion, access_token, userRole, loc, guardLog,
                 login, pending, awaitingRole, pmVars, pageVars>>

\* handleSubmit up to its fetch of /auth/register
Register_handleSubmit ==
  /\ loc = "/register"
  /\ ~register.loading
  /\ IF register.fullName = <<>> \/ register.email = <<>> \/ register.password = <<>>
     THEN /\ register' = [register EXCEPT !.error = "All fields are required."]
          /\ pending' = pending
          /\ ev' = Ev("Register.handleSubmit", "rejected", Null, Null, FALSE,
                      "All fields are required.")
     ELSE IF ~TestEmail(register.email)
     THEN /\ register' = [register EXCEPT !.error = "Enter a valid email."]
          /\ pending' = pending
          /\ ev' = Ev("Register.handleSubmit", "rejected", Null, Null, FALSE,
                      "Enter a valid email.")
     ELSE /\ BagCardinality(pending) < MaxPending
          /\ register' = [register EXCEPT !.error = "", !.loading = TRUE]
          /\ pending' = pending (+) SetToBag({Call("Register.handleSubmit", {"POST /auth/register"}, Null)})
          /\ ev' = Ev("Register.handleSubmit", "sent", Null, Null, FALSE, "")
  /\ UNCHANGED <<root, selectRoleVersion, access_token, userRole, loc, guardLog,
                 login, awaitingRole, pmVars, pageVars>>

\* the outcomes of POST /auth/register: ok, 409, another non-ok status, a
\* rejected fetch
RegisterResponses == {"ok", "409", "nonOk", "reject"}

\* the message Register shows for a failed registration
RegisterError(resp) ==
  IF resp = "409" THEN "A user with this email already exists."
  ELSE "Registration failed. Please try again."

\* handleSubmit from its fetch on
Register_fetch(r, resp) ==
  /\ r \in Awaiting("Register.handleSubmit", "POST /auth/register")
  /\ IF resp = "ok"
     THEN /\ access_token' = Token
          /\ awaitingRole' = TRUE
          /\ Navigate("/role", Token, userRole, login,
                      IF r.live
                      THEN [register EXCEPT !.email = <<>>, !.password = <<>>,
                                            !.fullName = <<>>, !.loading = FALSE]
                      ELSE register,
                      pending (-) SetToBag({r}))
          /\ ev' = Ev("Register.fetch", resp, "/role", Null, FALSE, "")
     ELSE /\ register' = IF r.live
                         THEN [register EXCEPT !.error = RegisterError(resp),
                                               !.loading = FALSE]
                         ELSE register
          /\ pending' = pending (-) SetToBag({r})
          /\ ev' = Ev("Register.fetch", resp, Null, Null, TRUE, RegisterError(resp))
          /\ UNCHANGED <<access_token, awaitingRole, loc, guardLog, login>>
  /\ UNCHANGED <<root, selectRoleVersion, userRole, pmVars, pageVars>>

\* ------------------------------------------------------------- SelectRole
\* the roles of the two cards: of the version that updates the backend, and
\* of the version that only stores the role
SelectRoleCards == {"Homeowner", "PropertyManager"}
SelectRoleCards2 == {"homeowner", "property_manager"}

\* handleSelect(role) sending the update without looking for a token
SelectRole_handleSelect_noTokenCheck(role) ==
  /\ loc = "/role"
  /\ selectRoleVersion = 1
  /\ BagCardinality(pending) < MaxPending
  /\ pending' = pending (+) SetToBag({Call("SelectRole.handleSelect", {"PUT /auth/update-role"}, role)})
  /\ ev' = Ev("SelectRole.handleSelect", role, Null, Null, FALSE, "")
  /\ UNCHANGED <<root, selectRoleVersion, access_token, userRole, loc, guardLog,
                 login, register, awaitingRole, pmVars, pageVars>>

\* handleSelect(role) up to its fetch of /auth/update-role
SelectRole_handleSelect(role) ==
  /\ loc = "/role"
  /\ selectRoleVersion = 1
  /\ IF access_token = Null
     THEN /\ Navigate("/login", access_token, userRole, login, register, pending)
          /\ ev' = Ev("SelectRole.handleSelect", role, "/login", Null, FALSE, "")
     ELSE /\ BagCardinality(pending) < MaxPending
          /\ pending' = pending (+) SetToBag({Call("SelectRole.handleSelect", {"PUT /auth/update-role"}, role)})
          /\ ev' = Ev("SelectRole.handleSelect", role, Null, Null, FALSE, "")
          /\ UNCHANGED <<loc, guardLog, login, register>>
  /\ UNCHANGED <<root, selectRoleVersion, access_token, userRole, awaitingRole, pmVars, pageVars>>

\* the dashboard handleSelect navigates to after the update
SelectRoleTarget(role) ==
  IF role = "Homeowner" THEN "/homeowner-dashboard" ELSE "/manager-dashboard"

\* handleSelect whose catch removes the token only, not the stored role
SelectRole_fetch_removeToken(r, ok) ==
  /\ r \in Awaiting("SelectRole.handleSelect", "PUT /auth/update-role")
  /\ IF ok
     THEN /\ userRole' = r.role
          /\ access_token' = access_token
          /\ awaitingRole' = FALSE
          /\ Navigate(SelectRoleTarget(r.role), access_token, r.role,
                      login, register, pending (-) SetToBag({r}))
          /\ ev' = Ev("SelectRole.fetch", "ok", SelectRoleTarget(r.role),
                      r.role, FALSE, "")
     ELSE /\ userRole' = userRole
          /\ access_token' = Null
          /\ awaitingRole' = awaitingRole
          /\ Navigate("/login", Null, userRole, login, register, pending (-) SetToBag({r}))
          /\ ev' = Ev("SelectRole.fetch", "failed", "/login", Null, TRUE, "")
  /\ UNCHANGED <<root, selectRoleVersion, pmVars, pageVars>>

\* handleSelect from its fetch on: the role is stored after an ok response;
\* a non-ok response or a rejected fetch clears localStorage
SelectRole_fetch(r, ok) ==
  /\ r \in Awaiting("SelectRole.handleSelect", "PUT /auth/update-role")
  /\ IF ok
     THEN /\ userRole' = r.role
          /\ access_token' = access_token
          /\ awaitingRole' = FALSE
          /\ Navigate(SelectRoleTarget(r.role), access_token, r.role,
                      login, register, pending (-) SetToBag({r}))
          /\ ev' = Ev("SelectRole.fetch", "ok", SelectRoleTarget(r.role),
                      r.role, FALSE, "")
     ELSE /\ userRole' = Null
          /\ access_token' = Null
          /\ awaitingRole' = awaitingRole
          /\ Navigate("/login", Null, Null, login, register, pending (-) SetToBag({r}))
          /\ ev' = Ev("SelectRole.fetch", "failed", "/login", Null, TRUE, "")
  /\ UNCHANGED <<root, selectRoleVersion, pmVars, pageVars>>

\* handleSelect of the version without a backend call
SelectRole2_handleSelect(role) ==
  /\ loc = "/role"
  /\ selectRoleVersion = 2
  /\ userRole' = role
  /\ Navigate("/register", access_token, role, login, register, pending)
  /\ ev' = Ev("SelectRole2.handleSelect", role, "/register", role, FALSE, "")
  /\ UNCHANGED <<root, selectRoleVersion, access_token, awaitingRole, pmVars, pageVars>>

\* ------------------------------------------------- the protected children
\* handleLogout of HomeownerDashboard and of PropertyManagerDashboard
Dashboard_handleLogout ==
  /\ loc \in {"/homeowner-dashboard", "/manager-dashboard"}
  /\ access_token' = Null
  /\ userRole' = Null
  /\ Navigate("/login", Null, Null, login, register, pending)
  /\ ev' = NoEv
  /\ UNCHANGED <<root, selectRoleVersion, awaitingRole, pmVars, pageVars>>

\* handleSubmit of HomeownerSetup and of PropertyManagerSetup
Setup_handleSubmit ==
  /\ loc \in {"/homeowner-setup", "/manager-setup"}
  /\ LET to == IF loc = "/homeowner-setup" THEN "/homeowner-dashboard"
               ELSE "/manager-dashboard"
     IN /\ Navigate(to, access_token, userRole, login, register, pending)
        /\ ev' = NoEv
  /\ UNCHANGED <<root, selectRoleVersion, access_token, userRole, awaitingRole, pmVars, pageVars>>

\* ------------------------------------------------ PropertyManagerDashboard
PM_setPropertyId(v) ==
  /\ pm' = [pm EXCEPT !.propertyId = v]
  /\ ev' = NoEv
  /\ UNCHANGED <<authVars, pmPending, pageVars>>

PM_setProviderCode(v) ==
  /\ pm' = [pm EXCEPT !.providerCode = v]
  /\ ev' = NoEv
  /\ UNCHANGED <<authVars, pmPending, pageVars>>

\* onBlur={validate} of either input
PM_onBlur ==
  /\ pm' = [pm EXCEPT !.errors = validate(pm.propertyId, pm.providerCode)]
  /\ ev' = Ev("PropertyManagerDashboard.onBlur", Null, Null, Null, FALSE, "")
  /\ UNCHANGED <<authVars, pmPending, pageVars>>

\* handleSubmit up to `await addProperty`; the button is disabled while
\* submitting
PM_handleSubmit ==
  /\ ~pm.submitting
  /\ LET newErrors == validate(pm.propertyId, pm.providerCode)
     IN IF newErrors # NoErrors
        THEN /\ pm' = [pm EXCEPT !.errors = newErrors]
             /\ pmPending' = pmPending
        ELSE /\ Len(pm.properties) < MaxProps
             /\ pm' = [pm EXCEPT !.errors = newErrors, !.submitting = TRUE]
             /\ pmPending' = pmPending \cup
                  {PMCall("addProperty", pm.propertyId, pm.providerCode)}
  /\ ev' = Ev("PropertyManagerDashboard.handleSubmit", Null, Null, Null, FALSE, "")
  /\ UNCHANGED <<authVars, pageVars>>

\* the messages of a failed addProperty: a non-ok response, a rejected fetch
AddPropertyErrors == {"Failed to add property", "Failed to fetch"}

\* handleSubmit whose catch also empties the two inputs
PM_addProperty_clearOnFail(r, newProperty, msg) ==
  /\ r \in pmPending /\ r.fn = "addProperty"
  /\ IF newProperty # Null
     THEN /\ pm' = [pm EXCEPT !.properties = Append(pm.properties, newProperty),
                             !.propertyId = <<>>, !.providerCode = <<>>,
                             !.errors = NoErrors, !.submitting = FALSE]
          /\ ev' = Ev("PropertyManagerDashboard.addProperty", newProperty,
                      Null, Null, FALSE, "")
     ELSE /\ pm' = [pm EXCEPT !.propertyId = <<>>, !.providerCode = <<>>,
                             !.errors = [NoErrors EXCEPT !.submit = msg],
                             !.submitting = FALSE]
          /\ ev' = Ev("PropertyManagerDashboard.addProperty", Null,
                      Null, Null, TRUE, msg)
  /\ pmPending' = pmPending \ {r}
  /\ UNCHANGED <<authVars, pageVars>>

\* handleSubmit replacing the list by the new property instead of
\* appending to it
PM_addProperty_replace(r, newProperty, msg) ==
  /\ r \in pmPending /\ r.fn = "addProperty"
  /\ IF newProperty # Null
     THEN /\ pm' = [pm EXCEPT !.properties = <<newProperty>>,
                             !.propertyId = <<>>, !.providerCode = <<>>,
                             !.errors = NoErrors, !.submitting = FALSE]
          /\ ev' = Ev("PropertyManagerDashboard.addProperty", newProperty,
                      Null, Null, FALSE, "")
     ELSE /\ pm' = [pm EXCEPT !.errors = [NoErrors EXCEPT !.submit = msg],
                             !.submitting = FALSE]
          /\ ev' = Ev("PropertyManagerDashboard.addProperty", Null,
                      Null, Null, TRUE, msg)
  /\ pmPending' = pmPending \ {r}
  /\ UNCHANGED <<authVars, pageVars>>

\* handleSubmit from `await addProperty` on: newProperty is the resolved
\* value, Null when the call threw `msg`
PM_addProperty(r, newProperty, msg) ==
  /\ r \in pmPending /\ r.fn = "addProperty"
  /\ IF newProperty # Null
     THEN /\ pm' = [pm EXCEPT !.properties = Append(pm.properties, newProperty),
                             !.propertyId = <<>>, !.providerCode = <<>>,
                             !.errors = NoErrors, !.submitting = FALSE]
          /\ ev' = Ev("PropertyManagerDashboard.addProperty", newProperty,
                      Null, Null, FALSE, "")
     ELSE /\ pm' = [pm EXCEPT !.errors = [NoErrors EXCEPT !.submit = msg],
                             !.submitting = FALSE]
          /\ ev' = Ev("PropertyManagerDashboard.addProperty", Null,
                      Null, Null, TRUE, msg)
  /\ pmPending' = pmPending \ {r}
  /\ UNCHANGED <<authVars, pageVars>>

\* the lists fetchUserContext resolves to (data.properties || []); Null
\* when it threw
ContextResponses == {Null, <<>>, <<"1234">>}

\* load() of the mount effect, from `await fetchUserContext()` on
PM_load(r, properties) ==
  /\ r \in pmPending /\ r.fn = "fetchUserContext"
  /\ IF properties # Null
     THEN /\ pm' = [pm EXCEPT !.properties = properties, !.loading = FALSE]
          /\ ev' = Ev("PropertyManagerDashboard.load", properties,
                      Null, Null, FALSE, "")
     ELSE /\ pm' = [pm EXCEPT !.loading = FALSE]
          /\ ev' = Ev("PropertyManagerDashboard.load", Null,
                      Null, Null, TRUE, "")
  /\ pmPending' = pmPending \ {r}
  /\ UNCHANGED <<authVars, pageVars>>

NextPM ==
  \/ \E v \in PropertyIdInputs : PM_setPropertyId(v)
  \/ \E v \in ProviderCodeInputs : PM_setProviderCode(v)
  \/ PM_onBlur
  \/ PM_handleSubmit
  \/ \E r \in pmPending, p \in Properties \cup {Null}, msg \in AddPropertyErrors :
        PM_addProperty(r, p, msg)
  \/ \E r \in pmPending, ps \in ContextResponses : PM_load(r, ps)

\* PropertyManagerDashboard rendered on its own
InitPM == InitWith({"PropertyManagerDashboard"}, {Null})

SpecPM == InitPM /\ [][NextPM]_vars

\* ------------------------------------------------------------ TariffOption
\* fetchTariffs() of the mount effect, from `await axios.get` on
TariffOption_fetchTariffs(resp) ==
  /\ root = "TariffOption"
  /\ tariff.request = "pending"
  /\ IF resp # Null
     THEN /\ tariff' = [tariff EXCEPT !.tariffs = resp, !.loading = FALSE,
                                      !.request = "ok"]
          /\ ev' = Ev("TariffOption.fetchTariffs", "ok", Null, Null, FALSE, "")
     ELSE /\ tariff' = [tariff EXCEPT
                          !.error = "Failed to load tariff options. Please try again later.",
                          !.loading = FALSE, !.request = "failed"]
          /\ ev' = Ev("TariffOption.fetchTariffs", "failed", Null, Null, TRUE,
                      "Failed to load tariff options. Please try again later.")
  /\ UNCHANGED <<authVars, pmVars, portfolio, usageLogs, propertyAnalytics,
                 deviceAnalytics, dailyEnergy, updateProperty, updatePut,
                 addProperty>>

\* handleSelect and handleConfirm are reached only from the cards and the
\* button of the return statement that throws, so neither has a step.

\* ----------------------------------------------------------- PortfolioList
\* The effect of [page, sortBy, search] calls fetchPoperties(); the function
\* declared is fetchPrperties, so the call throws a ReferenceError before
\* any request is made and React unmounts the component.
PortfolioList_effect ==
  /\ root = "PortfolioList"
  /\ portfolio.mounted
  /\ portfolio.effect = "scheduled"
  /\ portfolio' = [portfolio EXCEPT !.effect = "threw", !.mounted = FALSE]
  /\ ev' = Ev("PortfolioList.effect", "ReferenceError", Null, Null, FALSE, "")
  /\ UNCHANGED <<authVars, pmVars, tariff, usageLogs, propertyAnalytics,
                 deviceAnalytics, dailyEnergy, updateProperty, updatePut,
                 addProperty>>

\* fetchPrperties and the Prev and Next buttons are never reached: the
\* effect throws before any request and the component is unmounted.

\* ------------------------------------------------------ the loading pages
\* fetchLogs() of UsageLogsViewer, from `await fetch` on: a non-ok response
\* throws "Failed to load usage logs", finally clears loading
UsageLogsViewer_fetchLogs(resp) ==
  /\ root = "UsageLogsViewer"
  /\ usageLogs.request = "pending"
  /\ LET msg == IF resp = "nonOk" THEN "Failed to load usage logs"
                ELSE "Failed to fetch"
     IN IF resp = "ok"
        THEN /\ usageLogs' = [usageLogs EXCEPT !.logs = <<"log">>,
                                !.loading = FALSE, !.request = "ok"]
             /\ ev' = Ev("UsageLogsViewer.fetchLogs", resp, Null, Null, FALSE, "")
        ELSE /\ usageLogs' = [usageLogs EXCEPT !.error = msg,
                                !.loading = FALSE, !.request = "failed"]
             /\ ev' = Ev("UsageLogsViewer.fetchLogs", resp, Null, Null, TRUE, msg)
  /\ UNCHANGED <<authVars, pmVars, tariff, portfolio, propertyAnalytics,
                 deviceAnalytics, dailyEnergy, updateProperty, updatePut,
                 addProperty>>

\* fetchAnalytics() of PropertyAnalytics, from `await fetch` on.  There is
\* no try: a rejected fetch ends the function, and the body of a non-ok
\* response is stored like the analytics
PropertyAnalytics_fetchAnalytics(resp) ==
  /\ root = "PropertyAnalytics"
  /\ propertyAnalytics.request = "pending"
  /\ IF resp = "reject"
     THEN /\ propertyAnalytics' = [propertyAnalytics EXCEPT !.request = "failed"]
          /\ ev' = Ev("PropertyAnalytics.fetchAnalytics", resp, Null, Null, TRUE, "")
     ELSE /\ propertyAnalytics' =
               [propertyAnalytics EXCEPT
                  !.analytics = IF resp = "ok" THEN "analytics" ELSE "detail",
                  !.loading = FALSE,
                  !.request = IF resp = "ok" THEN "ok" ELSE "failed"]
          /\ ev' = Ev("PropertyAnalytics.fetchAnalytics", resp, Null, Null,
                      resp # "ok", "")
  /\ UNCHANGED <<authVars, pmVars, tariff, portfolio, usageLogs,
                 deviceAnalytics, dailyEnergy, updateProperty, updatePut,
                 addProperty>>

\* fetchDeviceUsage() of DeviceAnalytics, from `await fetch` on; no try
\* either
DeviceAnalytics_fetchDeviceUsage(resp) ==
  /\ root = "DeviceAnalytics"
  /\ deviceAnalytics.request = "pending"
  /\ IF resp = "reject"
     THEN /\ deviceAnalytics' = [deviceAnalytics EXCEPT !.request = "failed"]
          /\ ev' = Ev("DeviceAnalytics.fetchDeviceUsage", resp, Null, Null, TRUE, "")
     ELSE /\ deviceAnalytics' =
               [deviceAnalytics EXCEPT
                  !.usage = IF resp = "ok" THEN "usage" ELSE "detail",
                  !.loading = FALSE,
                  !.request = IF resp = "ok" THEN "ok" ELSE "failed"]
          /\ ev' = Ev("DeviceAnalytics.fetchDeviceUsage", resp, Null, Null,
                      resp # "ok", "")
  /\ UNCHANGED <<authVars, pmVars, tariff, portfolio, usageLogs,
                 propertyAnalytics, dailyEnergy, updateProperty, updatePut,
                 addProperty>>

\* the mount effect of DailyEnergy up to `await fetch`: without a token it
\* navigates to /login and sends nothing
DailyEnergy_effect ==
  /\ root = "DailyEnergy"
  /\ dailyEnergy.effect = "scheduled"
  /\ dailyEnergy' =
       IF access_token = Null
       THEN [dailyEnergy EXCEPT !.effect = "ran", !.navigated = "/login"]
       ELSE [dailyEnergy EXCEPT !.effect = "ran", !.loading = TRUE,
                                !.error = "", !.request = "pending"]
  /\ ev' = NoEv
  /\ UNCHANGED <<authVars, pmVars, tariff, portfolio, usageLogs,
                 propertyAnalytics, deviceAnalytics, updateProperty,
                 updatePut, addProperty>>

\* fetchDailyEnergy() from `await fetch` on: a 401 or 403 clears
\* localStorage and navigates to /login, another failure sets the error;
\* finally clears loading in every case
DailyEnergy_fetchDailyEnergy(resp) ==
  /\ root = "DailyEnergy"
  /\ dailyEnergy.request = "pending"
  /\ LET msg == "We couldn't load your energy data just now."
     IN IF resp = "ok"
        THEN /\ dailyEnergy' = [dailyEnergy EXCEPT !.tip = "Peak usage",
                                  !.loading = FALSE, !.request = "ok"]
             /\ ev' = Ev("DailyEnergy.fetchDailyEnergy", resp, Null, Null, FALSE, "")
             /\ UNCHANGED <<access_token, userRole>>
        ELSE IF resp = "401"
        THEN /\ dailyEnergy' = [dailyEnergy EXCEPT !.navigated = "/login",
                                  !.loading = FALSE, !.request = "failed"]
             /\ access_token' = Null
             /\ userRole' = Null
             /\ ev' = Ev("DailyEnergy.fetchDailyEnergy", resp, "/login", Null, TRUE, "")
        ELSE /\ dailyEnergy' = [dailyEnergy EXCEPT !.error = msg,
                                  !.loading = FALSE, !.request = "failed"]
             /\ ev' = Ev("DailyEnergy.fetchDailyEnergy", resp, Null, Null, TRUE, msg)
             /\ UNCHANGED <<access_token, userRole>>
  /\ UNCHANGED <<root, selectRoleVersion, loc, guardLog, login, register,
                 pending, awaitingRole, pmVars, tariff, portfolio, usageLogs,
                 propertyAnalytics, deviceAnalytics, updateProperty,
                 updatePut, addProperty>>

\* --------------------------------------------------------- UpdateProperty
\* fetchProperty() of the mount effect, from `await fetch` on; data is the
\* body of an ok response
UpdateProperty_fetchProperty(resp, data) ==
  /\ root = "UpdateProperty"
  /\ updateProperty.request = "pending"
  /\ LET msg == IF resp = "nonOk" THEN "Failed to load property"
                ELSE "Failed to fetch"
     IN IF resp = "ok"
        THEN /\ updateProperty' =
                  [updateProperty EXCEPT
                     !.formData = [f \in UpdateFields |-> OrEmpty(data[f])],
                     !.loading = FALSE, !.request = "ok"]
             /\ ev' = Ev("UpdateProperty.fetchProperty", resp, Null, Null, FALSE, "")
        ELSE /\ updateProperty' = [updateProperty EXCEPT !.error = msg,
                                     !.loading = FALSE, !.request = "failed"]
             /\ ev' = Ev("UpdateProperty.fetchProperty", resp, Null, Null, TRUE, msg)
  /\ UNCHANGED <<authVars, pmVars, tariff, portfolio, usageLogs,
                 propertyAnalytics, deviceAnalytics, dailyEnergy, updatePut,
                 addProperty>>

\* handleChange of an input; the form is rendered once loading is false
UpdateProperty_handleChange(name, value) ==
  /\ root = "UpdateProperty"
  /\ updateProperty.mounted /\ ~updateProperty.loading
  /\ updateProperty' = [updateProperty EXCEPT !.formData[name] = value]
  /\ ev' = NoEv
  /\ UNCHANGED <<authVars, pmVars, tariff, portfolio, usageLogs,
                 propertyAnalytics, deviceAnalytics, dailyEnergy, updatePut,
                 addProperty>>

\* handleSubmit without the disabled={saving} of the submit button
UpdateProperty_handleSubmit_noDisable ==
  /\ root = "UpdateProperty"
  /\ updateProperty.mounted /\ ~updateProperty.loading
  /\ UpdateSubmittable(updateProperty.formData, UpdateRequired)
  /\ updateProperty.patches + updateProperty.timers < MaxPending
  /\ updateProperty' = [updateProperty EXCEPT !.saving = TRUE, !.error = "",
                          !.success = "", !.patches = @ + 1]
  /\ ev' = NoEv
  /\ UNCHANGED <<authVars, pmVars, tariff, portfolio, usageLogs,
                 propertyAnalytics, deviceAnalytics, dailyEnergy, updatePut,
                 addProperty>>

\* handleSubmit up to `await fetch`; the button is disabled while saving
UpdateProperty_handleSubmit ==
  /\ root = "UpdateProperty"
  /\ updateProperty.mounted /\ ~updateProperty.loading
  /\ ~updateProperty.saving
  /\ UpdateSubmittable(updateProperty.formData, UpdateRequired)
  /\ updateProperty.patches + updateProperty.timers < MaxPending
  /\ updateProperty' = [updateProperty EXCEPT !.saving = TRUE, !.error = "",
                          !.success = "", !.patches = @ + 1]
  /\ ev' = NoEv
  /\ UNCHANGED <<authVars, pmVars, tariff, portfolio, usageLogs,
                 propertyAnalytics, deviceAnalytics, dailyEnergy, updatePut,
                 addProperty>>

\* the messages of a failed PATCH: a non-ok response without detail, a
\* rejected fetch
UpdateErrors == [nonOk |-> "Failed to update property", reject |-> "Failed to fetch"]

\* handleSubmit with the setTimeout moved into the finally block: the
\* navigation is scheduled after a failed PATCH as well
UpdateProperty_patch_timerInFinally(resp) ==
  /\ root = "UpdateProperty"
  /\ updateProperty.patches > 0
  /\ LET u == [updateProperty EXCEPT !.patches = @ - 1, !.timers = @ + 1]
     IN IF resp = "ok"
        THEN /\ updateProperty' =
                  IF u.mounted
                  THEN [u EXCEPT !.success = "Property updated successfully!",
                                 !.saving = FALSE]
                  ELSE u
             /\ ev' = Ev("UpdateProperty.patch", resp, Null, Null, FALSE, "")
        ELSE /\ updateProperty' =
                  IF u.mounted
                  THEN [u EXCEPT !.error = UpdateErrors[resp], !.saving = FALSE]
                  ELSE u
             /\ ev' = Ev("UpdateProperty.patch", resp, Null, Null, TRUE,
                         UpdateErrors[resp])
  /\ UNCHANGED <<authVars, pmVars, tariff, portfolio, usageLogs,
                 propertyAnalytics, deviceAnalytics, dailyEnergy, updatePut,
                 addProperty>>

\* handleSubmit from `await fetch` on; after an unmount the setState calls
\* have no effect, the timer is set all the same
UpdateProperty_patch(resp) ==
  /\ root = "UpdateProperty"
  /\ updateProperty.patches > 0
  /\ LET u == [updateProperty EXCEPT !.patches = @ - 1]
     IN IF resp = "ok"
        THEN /\ updateProperty' =
                  IF u.mounted
                  THEN [u EXCEPT !.success = "Property updated successfully!",
                                 !.saving = FALSE, !.timers = @ + 1]
                  ELSE [u EXCEPT !.timers = @ + 1]
             /\ ev' = Ev("UpdateProperty.patch", resp, Null, Null, FALSE, "")
        ELSE /\ updateProperty' =
                  IF u.mounted
                  THEN [u EXCEPT !.error = UpdateErrors[resp], !.saving = FALSE]
                  ELSE u
             /\ ev' = Ev("UpdateProperty.patch", resp, Null, Null, TRUE,
                         UpdateErrors[resp])
  /\ UNCHANGED <<authVars, pmVars, tariff, portfolio, usageLogs,
                 propertyAnalytics, deviceAnalytics, dailyEnergy, updatePut,
                 addProperty>>

\* the timer of a successful submit fires: navigate("/manager-dashboard")
UpdateProperty_timeout ==
  /\ root = "UpdateProperty"
  /\ updateProperty.timers > 0
  /\ updateProperty' = [updateProperty EXCEPT !.timers = @ - 1, !.mounted = FALSE]
  /\ ev' = Ev("UpdateProperty.timeout", Null, "/manager-dashboard", Null, FALSE, "")
  /\ UNCHANGED <<authVars, pmVars, tariff, portfolio, usageLogs,
                 propertyAnalytics, deviceAnalytics, dailyEnergy, updatePut,
                 addProperty>>

\* Back to Dashboard
UpdateProperty_back ==
  /\ root = "UpdateProperty"
  /\ updateProperty.mounted /\ ~updateProperty.loading
  /\ updateProperty' = [updateProperty EXCEPT !.mounted = FALSE]
  /\ ev' = NoEv
  /\ UNCHANGED <<authVars, pmVars, tariff, portfolio, usageLogs,
                 propertyAnalytics, deviceAnalytics, dailyEnergy, updatePut,
                 addProperty>>

\* ------------------------------------------- UpdateProperty, PUT version
UpdatePropertyPut_handleChange(name, value) ==
  /\ root = "UpdatePropertyPut"
  /\ updatePut' = [updatePut EXCEPT !.formData[name] = value]
  /\ ev' = NoEv
  /\ UNCHANGED <<authVars, pmVars, tariff, portfolio, usageLogs,
                 propertyAnalytics, deviceAnalytics, dailyEnergy,
                 updateProperty, addProperty>>

\* the submit button of the PUT version has no disabled attribute
UpdatePropertyPut_disabled == FALSE

\* handleSubmit up to `await fetch`; Save Changes is never disabled
UpdatePropertyPut_handleSubmit ==
  /\ root = "UpdatePropertyPut"
  /\ ~UpdatePropertyPut_disabled
  /\ UpdateSubmittable(updatePut.formData, UpdatePutFields)
  /\ updatePut.puts < MaxPending
  /\ updatePut' = [updatePut EXCEPT !.puts = @ + 1]
  /\ ev' = NoEv
  /\ UNCHANGED <<authVars, pmVars, tariff, portfolio, usageLogs,
                 propertyAnalytics, deviceAnalytics, dailyEnergy,
                 updateProperty, addProperty>>

\* the message handleSubmit sets for each outcome of the PUT
UpdatePutMessages ==
  [ok |-> "Property updated successfully!", nonOk |-> "Error: detail",
   reject |-> "Connection error. Please try again."]

\* handleSubmit from `await fetch` on
UpdatePropertyPut_put(resp) ==
  /\ root = "UpdatePropertyPut"
  /\ updatePut.puts > 0
  /\ updatePut' = [updatePut EXCEPT !.puts = @ - 1,
                                    !.message = UpdatePutMessages[resp]]
  /\ ev' = Ev("UpdatePropertyPut.put", resp, Null, Null, resp # "ok",
              IF resp = "ok" THEN "" ELSE UpdatePutMessages[resp])
  /\ UNCHANGED <<authVars, pmVars, tariff, portfolio, usageLogs,
                 propertyAnalytics, deviceAnalytics, dailyEnergy,
                 updateProperty, addProperty>>

\* ------------------------------------------------------------ AddProperty
\* handleChange: the field is set and its error replaced
AddProperty_handleChange(name, value) ==
  /\ root = "AddProperty"
  /\ addProperty' = [addProperty EXCEPT
                       !.form[name] = value,
                       !.errors[name] = validateField(name, value)]
  /\ ev' = NoEv
  /\ UNCHANGED <<authVars, pmVars, tariff, portfolio, usageLogs,
                 propertyAnalytics, deviceAnalytics, dailyEnergy,
                 updateProperty, updatePut>>

\* handleSubmit up to `await axios.post`: with an error message in errors
\* it alerts and returns, otherwise it posts the form
AddProperty_handleSubmit ==
  /\ root = "AddProperty"
  /\ IF \E f \in AddFields : addProperty.errors[f] # ""
     THEN /\ addProperty' = addProperty
          /\ ev' = [Ev("AddProperty.handleSubmit", "hasErrors", Null, Null,
                       FALSE, "Please fix errors before submitting.")
                      EXCEPT !.alert = TRUE]
     ELSE /\ Cardinality(addProperty.posts) < MaxPending
          /\ addProperty' = [addProperty EXCEPT !.posts = @ \cup {addProperty.form}]
          /\ ev' = Ev("AddProperty.handleSubmit", "post", Null, Null, FALSE, "")
  /\ UNCHANGED <<authVars, pmVars, tariff, portfolio, usageLogs,
                 propertyAnalytics, deviceAnalytics, dailyEnergy,
                 updateProperty, updatePut>>

\* handleSubmit from `await axios.post` on, for the POST that carries `body`
AddProperty_post(body, ok) ==
  /\ root = "AddProperty"
  /\ body \in addProperty.posts
  /\ IF ok
     THEN /\ addProperty' = [AddInit EXCEPT
                               !.success = "Property added successfully!",
                               !.posts = addProperty.posts \ {body}]
          /\ ev' = Ev("AddProperty.post", "ok", Null, Null, FALSE, "")
     ELSE /\ addProperty' = [addProperty EXCEPT !.posts = @ \ {body}]
          /\ ev' = [Ev("AddProperty.post", "failed", Null, Null, TRUE,
                       "Error saving property.") EXCEPT !.alert = TRUE]
  /\ UNCHANGED <<authVars, pmVars, tariff, portfolio, usageLogs,
                 propertyAnalytics, deviceAnalytics, dailyEnergy,
                 updateProperty, updatePut>>

\* -------------------------------------------------------------------- Next
Next ==
  \/ \E path \in Routes : Goto(path)
  \/ \E l \in Links : Link(l[1], l[2])
  \/ \E v \in EmailInputs : Login_setEmail(v)
  \/ \E v \in PasswordInputs : Login_setPassword(v)
  \/ Login_handleSubmit
  \/ \E r \in BagToSet(pending), ok \in BOOLEAN, msg \in LoginErrors : Login_loginUser(r, ok, msg)
  \/ \E r \in BagToSet(pending), resp \in MeResponses : Login_checkUserRole(r, resp)
  \/ \E v \in NameInputs : Register_setFullName(v)
  \/ \E v \in EmailInputs : Register_setEmail(v)
  \/ \E v \in PasswordInputs : Register_setPassword(v)
  \/ Register_handleSubmit
  \/ \E r \in BagToSet(pending), resp \in RegisterResponses : Register_fetch(r, resp)
  \/ \E role \in SelectRoleCards : SelectRole_handleSelect(role)
  \/ \E r \in BagToSet(pending), ok \in BOOLEAN : SelectRole_fetch(r, ok)
  \/ \E role \in SelectRoleCards2 : SelectRole2_handleSelect(role)
  \/ Dashboard_handleLogout
  \/ Setup_handleSubmit

Spec == Init /\ [][Next]_vars

\* ------------------------------------------------------------------- pages
\* values typed into the inputs of UpdateProperty and of AddProperty
UpdateInputs == {"", "v"}
AddInputs ==
  [property_type |-> {<<>>, <<" ", "a">>, <<"a", "b">>},
   location |-> {<<>>, <<"a", "b">>},
   average_monthly_kwh |-> {<<>>, <<"-", "1">>, <<"5">>},
   budget |-> {<<>>, <<"-", "1">>}]

\* the pages App has no route for, each rendered on its own
Pages ==
  {"TariffOption", "PortfolioList", "UsageLogsViewer", "PropertyAnalytics",
   "DeviceAnalytics", "DailyEnergy", "UpdateProperty", "UpdatePropertyPut",
   "AddProperty"}

\* a page opened by a visitor with or without a token from a login
InitPages == InitWith(Pages, {Null, Token})

NextUpdate ==
  \/ \E resp \in LoadResponses, data \in PropertyData :
        UpdateProperty_fetchProperty(resp, data)
  \/ \E name \in UpdateFields, value \in UpdateInputs :
        UpdateProperty_handleChange(name, value)
  \/ UpdateProperty_handleSubmit
  \/ \E resp \in LoadResponses : UpdateProperty_patch(resp)
  \/ UpdateProperty_timeout
  \/ UpdateProperty_back
  \/ \E name \in UpdatePutFields, value \in UpdateInputs :
        UpdatePropertyPut_handleChange(name, value)
  \/ UpdatePropertyPut_handleSubmit
  \/ \E resp \in LoadResponses : UpdatePropertyPut_put(resp)

NextPages ==
  \/ \E resp \in TariffResponses : TariffOption_fetchTariffs(resp)
  \/ PortfolioList_effect
  \/ \E resp \in LoadResponses : UsageLogsViewer_fetchLogs(resp)
  \/ \E resp \in LoadResponses : PropertyAnalytics_fetchAnalytics(resp)
  \/ \E resp \in LoadResponses : DeviceAnalytics_fetchDeviceUsage(resp)
  \/ DailyEnergy_effect
  \/ \E resp \in ScenarioResponses : DailyEnergy_fetchDailyEnergy(resp)
  \/ NextUpdate
  \/ \E name \in DOMAIN AddInputs : \E value \in AddInputs[name] :
        AddProperty_handleChange(name, value)
  \/ AddProperty_handleSubmit
  \/ \E body \in addProperty.posts, ok \in BOOLEAN : AddProperty_post(body, ok)

SpecPages == InitPages /\ [][NextPages]_vars

\* ------------------------------------------------------------------- forms
\* the forms with a submit control: those of App, PropertyManagerDashboard
\* and the two UpdateProperty pages, one of them rendered
FormRoots ==
  {"App", "PropertyManagerDashboard", "UpdateProperty", "UpdatePropertyPut"}

InitForms == InitWith(FormRoots, {Null})

NextForms ==
  \/ root = "App" /\ Next
  \/ root = "PropertyManagerDashboard" /\ NextPM
  \/ NextUpdate

SpecForms == InitForms /\ [][NextForms]_vars

\* ================================================================= claims
\* the guard evaluations of the last navigation
GuardEvals == {guardLog[i] : i \in DOMAIN guardLog}

C2_NoTokenToLogin ==
  \A e \in GuardEvals : e.token = Null => e.result = "/login"

\* C2 witness: the guard ran with no token while a userRole was stored
C2_Witness ==
  \E e \in GuardEvals : e.token = Null /\ e.userRole # Null

C4_Original == awaitingRole => loc \notin DOMAIN AllowedRole

\* C5 as stated: userRole is absent or one of Homeowner, PropertyManager.
C5_Original == userRole \in {Null, "Homeowner", "PropertyManager"}

\* C6 as stated: no two requests started on the displayed page are pending
\* at the same time.
C6_Original ==
  LET live == {c \in BagToSet(pending) : c.live}
  IN /\ \A c \in live : CopiesIn(c, pending) = 1 /\ Cardinality(c.requests) <= 1
     /\ Cardinality(live) <= 1

\* C6 amended: each user action has at most one network request in flight
\* at any time; requests started by different user actions on the same
\* page can be pending together.
C6_OnePerAction ==
  \A c \in BagToSet(pending) : Cardinality(c.requests) = 1

\* C6 witness: two clicks on the SelectRole cards each have their PUT
\* /auth/update-role in flight
C6_Witness ==
  LET live == {c \in BagToSet(pending) :
                 c.live /\ c.handler = "SelectRole.handleSelect"}
  IN /\ loc = "/role"
     /\ \/ Cardinality(live) >= 2
        \/ \E c \in live : CopiesIn(c, pending) >= 2

\* C7 as stated: a failed request ends in an error string or an alert.
C7_Original == ev.failed => (ev.error # "" \/ ev.alert)

\* C8 as stated: the role check after a login ends in a navigation, to the
\* dashboard of the reported role or to /role, and writes userRole only for
\* Homeowner and PropertyManager.
C8_Original ==
  ev.op = "Login.checkUserRole" =>
    /\ ev.nav # Null
    /\ ev.arg = "Homeowner" => ev.nav = "/homeowner-dashboard"
    /\ ev.arg = "PropertyManager" => ev.nav = "/manager-dashboard"
    /\ ev.arg \in {Null, "nonOk", "reject"} => ev.nav = "/role"
    /\ ev.stored # Null => ev.arg \in {"Homeowner", "PropertyManager"}
    /\ ev.arg \in {"Homeowner", "PropertyManager"} => ev.stored = ev.arg

\* a blank string: empty or white space only
Blank(s) == \A i \in 1..Len(s) : s[i] = " "

\* a Property ID and Provider Code that may be sent: the id non-blank with
\* at least 4 characters, the code non-blank and alphanumeric throughout
Sendable(id, code) ==
  /\ ~Blank(id) /\ Len(id) >= 4
  /\ ~Blank(code) /\ \A i \in 1..Len(code) : code[i] \in AlnumChars

\* C9: every addProperty call in flight carries a non-blank Property ID of
\* at least 4 characters and a non-blank alphanumeric Provider Code; after a
\* blur or a submit the errors show the message matching each field, and a
\* submit of any other input leaves the form idle with no call in flight.
C9_ValidatedBeforeSend ==
  /\ \A r \in pmPending :
        r.fn = "addProperty" => Sendable(r.propertyId, r.providerCode)
  /\ ev.op \in {"PropertyManagerDashboard.onBlur",
                 "PropertyManagerDashboard.handleSubmit"} =>
        /\ Blank(pm.propertyId) =>
              pm.errors.propertyId = "Property ID is required"
        /\ (~Blank(pm.propertyId) /\ Len(pm.propertyId) < 4) =>
              pm.errors.propertyId = "Too short - must be at least 4 characters"
        /\ Blank(pm.providerCode) =>
              pm.errors.providerCode = "Provider code is required"
        /\ (~Blank(pm.providerCode) /\ ~Sendable(<<"9", "9", "9", "9">>, pm.providerCode)) =>
              pm.errors.providerCode = "Provider code must be alphanumeric"
  /\ (ev.op = "PropertyManagerDashboard.handleSubmit"
        /\ ~Sendable(pm.propertyId, pm.providerCode)) =>
        /\ ~pm.submitting
        /\ \A r \in pmPending : r.fn # "addProperty"

\* C9 witness: a call is in flight, and a blur on a changed, too short
\* Property ID shows its message
C9_Witness ==
  /\ \E r \in pmPending : r.fn = "addProperty"
  /\ ev.op = "PropertyManagerDashboard.onBlur"
  /\ pm.propertyId = <<"1", "2">>
  /\ pm.errors.propertyId = "Too short - must be at least 4 characters"

\* C10: a submit of sendable input calls addProperty with the entered
\* Property ID and Provider Code; when the call succeeds the returned
\* property is appended to the list, the earlier entries kept in order, and
\* both fields and all errors are cleared.
C10_SubmitAppends ==
  [][ /\ (ev'.op = "PropertyManagerDashboard.handleSubmit"
           /\ Sendable(pm.propertyId, pm.providerCode)) =>
          pmPending' = pmPending \cup
            {PMCall("addProperty", pm.propertyId, pm.providerCode)}
      /\ (ev'.op = "PropertyManagerDashboard.addProperty" /\ ~ev'.failed) =>
          /\ pm'.properties = Append(pm.properties, ev'.arg)
          /\ pm'.propertyId = <<>>
          /\ pm'.providerCode = <<>>
          /\ pm'.errors = NoErrors ]_vars

\* C10 witness: a second property was added after an earlier one
C10_Witness ==
  /\ ev.op = "PropertyManagerDashboard.addProperty" /\ ~ev.failed
  /\ Len(pm.properties) = 2
  /\ pm.properties[2] = ev.arg
  /\ pm.propertyId = <<>> /\ pm.providerCode = <<>>

C12_Original ==
  TariffOption_render(tariff).view =
    IF tariff.request = "pending" THEN "loading"
    ELSE IF tariff.request = "ok" THEN "list"
    ELSE "error"

C14_Original ==
  /\ portfolio.request \in {"ok", "failed"} => ~portfolio.loading
  /\ (portfolio.effect # "scheduled" /\ portfolio.request # "pending") =>
        PortfolioList_render(portfolio) \in {"No properties found", "table"}

\* C15 as stated: on each page with a loading view, loading is false once
\* the load request has settled, with either outcome.
C15_Original ==
  \A p \in {tariff, usageLogs, updateProperty, propertyAnalytics,
             deviceAnalytics, dailyEnergy} :
    p.request \in {"ok", "failed"} => ~p.loading

\* the calls of handleSelect(role) awaiting their PUT, mounted or not
SelectRoleCalls(P, role) ==
  LET c == Call("SelectRole.handleSelect", {"PUT /auth/update-role"}, role)
  IN CopiesIn(c, P) + CopiesIn(Dead(c), P)

\* C16 as stated: a step of SelectRole that writes userRole is the
\* continuation of a PUT /auth/update-role that returned ok.
C16_Original ==
  (/\ ev.op \in {"SelectRole.handleSelect", "SelectRole.fetch",
                 "SelectRole2.handleSelect"}
   /\ ev.stored # Null) =>
     (ev.op = "SelectRole.fetch" /\ ev.arg = "ok")

\* C16 amended: in the SelectRole version that updates the backend, a click
\* on a card writes nothing to userRole; with a token stored it sends one
\* PUT /auth/update-role for the role of the card, with no token it sends
\* none and navigates to /login; and the continuation of a PUT writes the
\* role of that PUT when it returned ok and no role otherwise.
C16_RoleAfterUpdate ==
  [][ /\ ev'.op = "SelectRole.handleSelect" =>
           /\ userRole' = userRole
           /\ \A role \in SelectRoleCards :
                 SelectRoleCalls(pending', role) =
                   SelectRoleCalls(pending, role) +
                     (IF access_token # Null /\ role = ev'.arg THEN 1 ELSE 0)
           /\ access_token = Null => loc' = "/login"
      /\ ev'.op = "SelectRole.fetch" =>
           \E role \in SelectRoleCards :
              /\ SelectRoleCalls(pending', role) =
                   SelectRoleCalls(pending, role) - 1
              /\ userRole' = IF ev'.arg = "ok" THEN role ELSE Null ]_vars

\* C16 witness: the PUT for PropertyManager returned ok, the role is stored
\* and the manager dashboard displayed
C16_Witness ==
  /\ ev.op = "SelectRole.fetch" /\ ev.arg = "ok"
  /\ userRole = "PropertyManager"
  /\ loc = "/manager-dashboard"

\* C17: after a failed role update (non-ok response or rejected fetch)
\* localStorage holds neither token nor role, no role was written, and
\* /login is displayed.
C17_FailedUpdateClears ==
  (ev.op = "SelectRole.fetch" /\ ev.failed) =>
    /\ access_token = Null
    /\ userRole = Null
    /\ ev.stored = Null
    /\ ev.nav = "/login"
    /\ loc = "/login"

\* C17 witness: a role update failed and the login page is displayed with
\* an empty localStorage
C17_Witness ==
  /\ ev.op = "SelectRole.fetch" /\ ev.failed
  /\ loc = "/login"
  /\ access_token = Null /\ userRole = Null

\* the submissions of the mounted Login and Register forms in flight
LoginLive ==
  CopiesIn(Call("Login.handleSubmit", {"POST /auth/login"}, Null), pending)
  + CopiesIn(Call("Login.handleSubmit", {"GET /auth/me"}, Null), pending)
RegisterLive ==
  CopiesIn(Call("Register.handleSubmit", {"POST /auth/register"}, Null), pending)

\* the addProperty calls of PropertyManagerDashboard in flight
AddPropertyCalls == {r \in pmPending : r.fn = "addProperty"}

\* C18 amended: on Login, Register, PropertyManagerDashboard and the
\* UpdateProperty version that PATCHes, the submit control of the mounted
\* form is disabled exactly while a submission of that form is in flight,
\* so at most one is in flight.
C18_SubmitDisabled ==
  /\ LoginLive <= 1 /\ (login.loading <=> LoginLive = 1)
  /\ RegisterLive <= 1 /\ (register.loading <=> RegisterLive = 1)
  /\ Cardinality(AddPropertyCalls) <= 1
  /\ pm.submitting <=> AddPropertyCalls # {}
  /\ updateProperty.mounted =>
        /\ updateProperty.patches <= 1
        /\ updateProperty.saving <=> updateProperty.patches = 1

\* C18 as stated: the same of every form named, the UpdateProperty version
\* that PUTs included.
C18_Original ==
  /\ LoginLive <= 1 /\ (login.loading <=> LoginLive = 1)
  /\ RegisterLive <= 1 /\ (register.loading <=> RegisterLive = 1)
  /\ Cardinality(AddPropertyCalls) <= 1
  /\ pm.submitting <=> AddPropertyCalls # {}
  /\ updateProperty.mounted =>
        /\ updateProperty.patches <= 1
        /\ updateProperty.saving <=> updateProperty.patches = 1
  /\ updatePut.puts <= 1
  /\ UpdatePropertyPut_disabled <=> updatePut.puts = 1

\* C18 witness: UpdateProperty was saved once, and a second submission is
\* in flight with the button disabled
C18_Witness ==
  /\ updateProperty.mounted /\ updateProperty.saving
  /\ updateProperty.patches = 1
  /\ updateProperty.timers = 1

\* a non-empty run of characters that are not white space
NonSpaceRun(s) == s # <<>> /\ \A i \in 1..Len(s) : s[i] # " "

\* non-space@non-space.non-space
PatternOK(s) ==
  \E i \in 1..Len(s), j \in 1..Len(s) :
    /\ i < j /\ s[i] = "@" /\ s[j] = "."
    /\ NonSpaceRun(SubSeq(s, 1, i - 1))
    /\ NonSpaceRun(SubSeq(s, i + 1, j - 1))
    /\ NonSpaceRun(SubSeq(s, j + 1, Len(s)))

\* C19: a submit of Login or Register with a required field empty or an
\* email that does not match the pattern sends no request, sets the
\* message of the first failed test, and leaves localStorage and the
\* loading flag as they were.
C19_InvalidNotSent ==
  [][ /\ ev'.op = "Login.handleSubmit" =>
           LET empty == login.email = <<>> \/ login.password = <<>>
           IN (empty \/ ~PatternOK(login.email)) =>
                /\ ev'.arg = "rejected"
                /\ pending' = pending
                /\ login'.error = IF empty
                                  THEN "Email and password are required."
                                  ELSE "Enter a valid email."
                /\ login'.loading = login.loading
                /\ access_token' = access_token /\ userRole' = userRole
      /\ ev'.op = "Register.handleSubmit" =>
           LET empty == \/ register.fullName = <<>> \/ register.email = <<>>
                        \/ register.password = <<>>
           IN (empty \/ ~PatternOK(register.email)) =>
                /\ ev'.arg = "rejected"
                /\ pending' = pending
                /\ register'.error = IF empty
                                     THEN "All fields are required."
                                     ELSE "Enter a valid email."
                /\ register'.loading = register.loading
                /\ access_token' = access_token /\ userRole' = userRole ]_vars

\* C19 witness: Register was submitted with every field filled in and an
\* email without a dot, and shows the email message with nothing sent
C19_Witness ==
  /\ ev.op = "Register.handleSubmit" /\ ev.arg = "rejected"
  /\ register.fullName # <<>> /\ register.password # <<>>
  /\ register.email = <<"a", "@", "b">>
  /\ register.error = "Enter a valid email."
  /\ ~register.loading
  /\ pending = EmptyBag

\* the number of characters of s that are not blank
RECURSIVE NonBlank(_)
NonBlank(s) ==
  IF s = <<>> THEN 0
  ELSE (IF Head(s) = " " THEN 0 ELSE 1) + NonBlank(Tail(s))

\* C20 (as stated): every POST /properties/add of AddProperty carries a
\* form whose property_type and location have at least 2 non-blank
\* characters and whose number fields hold no negative value.
C20_Original ==
  \A body \in addProperty.posts :
    /\ \A f \in AddTextFields : NonBlank(body[f]) >= 2
    /\ \A f \in AddNumberFields : ~Negative(body[f])

\* C21: the step in which addProperty fails leaves the property list and
\* both inputs as they were, shows the thrown message as errors.submit and
\* nothing else as an error, and re-enables the submit button; inputs
\* that were sendable stay sendable, so the same form can be sent again.
C21_FailedAddKeepsForm ==
  [][ (ev'.op = "PropertyManagerDashboard.addProperty" /\ ev'.failed) =>
        /\ pm'.properties = pm.properties
        /\ pm'.propertyId = pm.propertyId
        /\ pm'.providerCode = pm.providerCode
        /\ pm'.errors.submit \in {"Failed to add property", "Failed to fetch"}
        /\ pm'.errors.submit = ev'.error
        /\ pm.submitting /\ ~pm'.submitting
        /\ Sendable(pm.propertyId, pm.providerCode)
              => Sendable(pm'.propertyId, pm'.providerCode) ]_vars

\* C21 witness: addProperty has just failed with a list and a filled-in
\* form on screen; the message is shown and the button is enabled
C21_Witness ==
  /\ ev.op = "PropertyManagerDashboard.addProperty" /\ ev.failed
  /\ pm.properties # <<>>
  /\ Sendable(pm.propertyId, pm.providerCode)
  /\ pm.errors.submit = "Failed to add property"
  /\ ~pm.submitting
  /\ {r \in pmPending : r.fn = "addProperty"} = {}

\* C22: in UpdateProperty (PATCH version) a navigation to
\* /manager-dashboard is scheduled only by the step in which a PATCH
\* returns ok, one per such PATCH; a failed PATCH schedules none and sets
\* the error of the mounted page to its message; the error and the success
\* message are never both non-empty.
C22_NavigationOnlyAfterOk ==
  [][ /\ ~(updateProperty.error # "" /\ updateProperty.success # "")
      /\ ~(updateProperty'.error # "" /\ updateProperty'.success # "")
      /\ updateProperty'.timers > updateProperty.timers =>
            /\ ev'.op = "UpdateProperty.patch" /\ ev'.arg = "ok"
            /\ updateProperty'.timers = updateProperty.timers + 1
            /\ updateProperty'.patches = updateProperty.patches - 1
      /\ (ev'.op = "UpdateProperty.patch" /\ ev'.arg # "ok") =>
            /\ updateProperty'.timers = updateProperty.timers
            /\ updateProperty.mounted =>
                  /\ updateProperty'.error \in
                        {"Failed to update property", "Failed to fetch"}
                  /\ updateProperty'.success = "" ]_vars

\* C22 witness: a PATCH returned ok and scheduled the navigation, then a
\* second submit failed before the timer fired: the error is shown, the
\* success message is gone and still one navigation is scheduled
C22_Witness ==
  /\ ev.op = "UpdateProperty.patch" /\ ev.arg = "nonOk"
  /\ updateProperty.mounted
  /\ updateProperty.error = "Failed to update property"
  /\ updateProperty.success = ""
  /\ updateProperty.timers = 1
  /\ updateProperty.patches = 0

====
